---- MODULE Spec2Model ----
(***************************************************************************)
(* The Zen Zone of Mood Mirror (src/unnamed/part_001): the host App's game *)
(* state, the Pattern Pulse match-3 game and the Stress Dissolve bubble    *)
(* game, as one state machine.  One action per React handler, effect or    *)
(* timer callback; an action includes the re-render and the effects that   *)
(* React runs after the handler's state updates.                           *)
(*                                                                         *)
(* Conventions.  A JS array is a function on 0..n-1 (the source's own      *)
(* indices).  null is the empty sequence and a present value v is <<v>>.   *)
(* Math.random() ids are fresh numbers drawn from a counter.  Bubble       *)
(* coordinates are kept in half units (y = 110 is 220, speed 1.5 is 3),    *)
(* so that the source's fractions stay integers.                           *)
(***************************************************************************)
EXTENDS Integers, Sequences, FiniteSets, TLC

\* ------------------------------------------------------------- bounds
\* Game sessions entered per run of the app.
MaxSessions == 2
\* Resolved (scoring) swaps per Pattern Pulse session.
MaxResolved == 2
\* Number of refill colourings the random refill is drawn from.
MaxRefill == 2
\* Frame callbacks and taps per Stress Dissolve session.
MaxFrames == 1
MaxTaps == 1
\* A high score left in the store by an earlier run of the app.
EarlierHigh == 50
\* SpecLive: the event loop is late only while fewer than MaxLiveBubbles
\* bubbles are on screen; taps per session.
MaxLiveBubbles == 1
MaxLiveTaps == 1
\* SpecRise: the event loop is late only while fewer than MaxRiseBubbles
\* bubbles are on screen and fewer than MaxRiseSpawns were spawned.
MaxRiseBubbles == 2
MaxRiseSpawns == 2
\* SpecDissolve: frame callbacks and taps per session.
MaxDissolveFrames == 1
MaxDissolveTaps == 2
\* The days of the calendar the model follows; the last one is today.
MaxDays == 3
\* Date.getTimezoneOffset() of the browser, in quarters of a day.
TimezoneOffset == 1
\* The sign-in attempts that may fail.
MaxFailures == 3
\* The slot clicks of SpecDiary that reach the store.
MaxWrites == 1

\* ---------------------------------------------------- program constants
COLORS == <<"#34d399", "#fbbf24", "#fb7185", "#38bdf8", "#818cf8">>
NumColors == 5
GridCells == 25
Width == 5
\* Mutant: the countdown starts one second short.
PatternTimeShort == 45 - 1
PatternTime == 45
DissolveTime == 30
\* Mutant: the spawn rule lets a ninth bubble in.
MaxBubblesLoose == 8 + 1
MaxBubbles == 8
BurstSize == 12
SpawnY == 220
TopY == -40

\* Object.keys(MOOD_THEMES)
MOODS == <<"joy", "anxiety", "stress", "calm", "low">>
Moods == {MOODS[k] : k \in DOMAIN MOODS}
\* TIME_SLOTS.map(slot => slot.id)
SlotIds == <<"q1", "q2", "q3", "q4">>
Slots == {SlotIds[k] : k \in DOMAIN SlotIds}
\* Mutant: any logged mood passes the threshold.
WinnerThresholdLoose == 3 - 2
\* freq[k] >= 3
WinnerThreshold == 3
\* A Date is an instant counted in quarters of a day (the span of a time slot).
QuartersPerDay == 4
\* for (let i = 0; i < 7; i++)
WeekDays == 7
\* if (last7.length < 3)
MinInsightDays == 3
Today == MaxDays
Dates == 1..MaxDays
Palette == {COLORS[k] : k \in 1..NumColors}
Cells == 0..(GridCells - 1)
Null == <<>>
Some(v) == <<v>>

VARIABLES
  user,         \* App.user: TRUE when a user is signed in
  isGamesOpen,  \* App.isGamesOpen
  activeGame,   \* App.activeGame: "none" (null), "pattern" or "dissolve"
  gameStats,    \* App.gameStats: the local copy of the stats document
  stored,       \* the stats document in the external store
  snapPending,  \* a stats snapshot is on its way to the listener
  sessions,     \* sessions entered so far
  mounted,      \* the active game's mount effect has run
  timers,       \* the live setInterval handles
  grid,         \* PatternPulseGame.grid
  selected,     \* PatternPulseGame.selected
  score,        \* the active game's score
  timeLeft,     \* the active game's timeLeft
  nextId,       \* source of fresh ids
  resolved,     \* resolved swaps in this session
  bubbles,      \* StressDissolveGame.bubbles
  particles,    \* StressDissolveGame.particles (its order is never read: a set)
  timeouts,     \* pending particle-expiry timeouts
  frameDue,     \* 16 ms have passed since the frame interval was (re)started
  timerDue,     \* 700 ms have passed since the spawn interval was (re)started
  frames,       \* frame callbacks counted in this session (by the specification)
  taps,         \* taps in this session
  ticks,        \* countdown callbacks run in this session
  finishes,     \* onFinish calls of the current session
  reported,     \* the argument of the last onFinish call
  lastClick,    \* the outcome of the last click or tap in the active game
  lastMatches,  \* the match set of the last accepted swap attempt
  initialAuthToken, \* __initial_auth_token is defined and not empty
  authError,    \* App.authError
  signIn,       \* the sign-in attempt: "idle", "custom" or "anonymous" (pending),
                \* "failed" or "done"
  retryTimer,   \* the setTimeout(initAuth, 5000) is pending
  attempts,     \* sign-in attempts started so far
  currentMood,  \* App.currentMood
  selectedDate, \* App.selectedDate, as a day number
  days,         \* the days collection in the external store
  calendarData, \* App.calendarData: the local copy of the days collection
  daysPending,  \* a days snapshot is on its way to the listener
  now,          \* Date.now(), counted in writes
  isGenerating, \* App.isGenerating
  requests,     \* the generation requests in flight, in the order they were sent
  weeklyAlert   \* App.weeklyAlert: "null", "short" (the 3-day notice) or "insight"

vars == <<user, isGamesOpen, activeGame, gameStats, stored, snapPending, sessions,
          mounted, timers, grid, selected, score, timeLeft, nextId, resolved,
          bubbles, particles, timeouts, frameDue, timerDue, frames, taps,
          ticks, finishes, reported, lastClick, lastMatches,
          initialAuthToken, authError, signIn, retryTimer, attempts,
          currentMood, selectedDate, days, calendarData, daysPending, now,
          isGenerating, requests, weeklyAlert>>

hostVars == <<user, isGamesOpen, activeGame, gameStats, stored, snapPending, sessions>>
patternVars == <<grid, selected, resolved, lastMatches, ticks>>
dissolveVars == <<bubbles, particles, frameDue, timerDue, frames, taps>>
authVars == <<initialAuthToken, authError, signIn, retryTimer, attempts>>
genVars == <<isGenerating, requests, weeklyAlert>>
appRest == <<authVars, genVars, selectedDate, days, calendarData, daysPending, now>>
appVars == <<currentMood, appRest>>
gameVars == <<isGamesOpen, activeGame, sessions, mounted, timers, score, timeLeft,
              nextId, finishes, reported, lastClick, patternVars, dissolveVars,
              timeouts>>

\* ------------------------------------------------------------ the store
StatsDoc(p, d) == [exists |-> TRUE, data |-> [k \in {"patternScore", "dissolveScore"} |->
                     IF k = "patternScore" THEN p ELSE d]]
NoDoc == [exists |-> FALSE, data |-> <<>>]

\* obj[key] || 0
Field(obj, key) == IF key \in DOMAIN obj THEN obj[key] ELSE 0

Max(a, b) == IF a > b THEN a ELSE b

\* { ...obj, [key]: value }
Spread(obj, key, value) ==
  [k \in DOMAIN obj \cup {key} |-> IF k = key THEN value ELSE obj[k]]

\* setDoc(ref, data, { merge: true })
MergeDoc(doc, data) ==
  [exists |-> TRUE,
   data |-> [k \in DOMAIN doc.data \cup DOMAIN data |->
               IF k \in DOMAIN data THEN data[k] ELSE doc.data[k]]]

\* ------------------------------------------------------- Pattern Pulse
Token(c, n) == [color |-> c, id |-> n]

\* The starting grids initGrid's random draw is taken from.
\* "scenario": every cell COLORS[1] except index 2, which is COLORS[2].
\* "latin": colour (col + 2 row) mod 5, with cell 15 recoloured like cell 10.
SeedColor(seed, i) ==
  IF seed = "scenario"
    THEN (IF i = 2 THEN COLORS[2] ELSE COLORS[1])
    ELSE (IF i = 15 THEN COLORS[5]
          ELSE COLORS[(((i % Width) + 2 * (i \div Width)) % NumColors) + 1])

Seeds == {"scenario", "latin"}

InitGrid(seed, base) == [i \in Cells |-> Token(SeedColor(seed, i), base + i)]

\* Mutant: the refill paints a colour that is not in COLORS.
RefillColorOff(k, i) == "#000000"

\* The colourings the random refill is drawn from: k = 0 paints COLORS[1],
\* larger k paint colour (k * i + k \div 2) mod 5.
RefillColor(k, i) == COLORS[((k * i + (k \div 2)) % NumColors) + 1]

SwapCells(g, a, b) ==
  [i \in DOMAIN g |-> IF i = a THEN g[b] ELSE IF i = b THEN g[a] ELSE g[i]]

\* Mutant: left and right neighbours must share the row.
IsAdjacentInRow(idx, sel) ==
  \/ sel \in {idx - Width, idx + Width}
  \/ sel \in {idx - 1, idx + 1} /\ sel \div Width = idx \div Width

\* [idx-1, idx+1, idx-5, idx+5].includes(selected)
IsAdjacent(idx, sel) == sel \in {idx - 1, idx + 1, idx - Width, idx + Width}

SameColor(g, a, b, c) == g[a].color = g[b].color /\ g[a].color = g[c].color

\* The nested loops of handleOrbClick: i over 0..4, j over 0..2,
\* r = i*5+j scans a row, c = j*5+i scans a column.
RowScan(g, i, j) ==
  LET r == i * Width + j
  IN  IF SameColor(g, r, r + 1, r + 2) THEN {r, r + 1, r + 2} ELSE {}

\* Mutant: the third comparison repeats the second cell.
ColScanPair(g, i, j) ==
  LET c == j * Width + i
  IN  IF SameColor(g, c, c + Width, c + Width)
        THEN {c, c + Width, c + 2 * Width} ELSE {}

ColScan(g, i, j) ==
  LET c == j * Width + i
  IN  IF SameColor(g, c, c + Width, c + 2 * Width)
        THEN {c, c + Width, c + 2 * Width} ELSE {}

\* Mutant: the column scan is left out.
MatchesRowsOnly(g) ==
  UNION {RowScan(g, i, j) : i \in 0..4, j \in 0..2}

Matches(g) ==
  UNION {RowScan(g, i, j) \cup ColScan(g, i, j) : i \in 0..4, j \in 0..2}

Rank(M, i) == Cardinality({m \in M : m < i})

\* Mutant: filters the matched cells out instead of replacing them.
RefillRemoves(g, M, k, base) ==
  LET keep == DOMAIN g \ M
      n == Cardinality(keep)
  IN  [j \in 0..(n - 1) |-> g[CHOOSE i \in keep : Cardinality({m \in keep : m < i}) = j]]

\* newGrid.map((o, i) => matches.has(i) ? { color: random, id: random } : o)
Refill(g, M, k, base) ==
  [i \in DOMAIN g |-> IF i \in M THEN Token(RefillColor(k, i), base + Rank(M, i))
                                 ELSE g[i]]

\* Mutant: every match scores as one triple.
ScoreUpdateFlat(s, M) == s + 30

\* Mutant: the updater drops the previous score.
ScoreUpdateSet(s, M) == Cardinality(M) * 10

\* Mutant: a matched cell is worth 1 point.
ScoreUpdateUnit(s, M) == s + Cardinality(M)

\* The updater of setScore: s => s + matches.size * 10
ScoreUpdate(s, M) == s + Cardinality(M) * 10

\* Mutant: a swap that matches nothing is kept.
AttemptSwapNoRevert(g, adjacent, newGrid, matches, k, base) ==
  IF adjacent
    THEN IF matches # {}
           THEN [outcome |-> "resolved", matches |-> matches,
                 grid |-> Refill(newGrid, matches, k, base)]
           ELSE [outcome |-> "reverted", matches |-> {}, grid |-> newGrid]
    ELSE [outcome |-> "rejected", matches |-> {}, grid |-> g]

\* The body of handleOrbClick once a cell is selected: what becomes of the
\* grid g, with the match set found.  adjacent is the value of isAdjacent,
\* newGrid the swapped copy, matches the set the scan of newGrid filled, k the
\* refill's random draw and base the first fresh id.
\* Mutant: only the cells that match because of the swap count.
AttemptSwapFreshOnly(g, adjacent, newGrid, matches, k, base) ==
  IF adjacent
    THEN IF matches \ Matches(g) # {}
           THEN [outcome |-> "resolved", matches |-> matches \ Matches(g),
                 grid |-> Refill(newGrid, matches \ Matches(g), k, base)]
           ELSE [outcome |-> "reverted", matches |-> {}, grid |-> g]
    ELSE [outcome |-> "rejected", matches |-> {}, grid |-> g]

AttemptSwap(g, adjacent, newGrid, matches, k, base) ==
  IF adjacent
    THEN IF matches # {}
           THEN [outcome |-> "resolved", matches |-> matches,
                 grid |-> Refill(newGrid, matches, k, base)]
           ELSE [outcome |-> "reverted", matches |-> {}, grid |-> g]
    ELSE [outcome |-> "rejected", matches |-> {}, grid |-> g]

\* ------------------------------------------------------------- the host
\* saveGameScore followed by setActiveGame(null): the onFinish handlers.
\* Unmounting the game runs its effect cleanups, which clear its intervals.
SaveGameScore(gameKey, sc) ==
  IF user
    THEN /\ stored' = MergeDoc(stored,
                        Spread(gameStats, gameKey, Max(Field(gameStats, gameKey), sc)))
         /\ snapPending' = TRUE
         /\ currentMood' = "joy"
    ELSE UNCHANGED <<stored, snapPending, currentMood>>

\* The game component is unmounted: its effect cleanups clear its intervals
\* and its state is gone (kept here at the useState initial values).
Unmount ==
  /\ timers' = {}
  /\ mounted' = FALSE
  /\ grid' = <<>>
  /\ selected' = Null
  /\ score' = 0
  /\ timeLeft' = 0
  /\ nextId' = 0
  /\ resolved' = 0
  /\ bubbles' = <<>>
  /\ particles' = {}
  /\ frameDue' = FALSE
  /\ timerDue' = FALSE
  /\ frames' = 0
  /\ taps' = 0

\* Mutant: the handler saves the score but leaves the game on screen.
OnFinishStays(gameKey, sc) ==
  /\ SaveGameScore(gameKey, sc)
  /\ timeLeft' = 0
  /\ finishes' = finishes + 1
  /\ reported' = Some(sc)
  /\ UNCHANGED <<user, isGamesOpen, activeGame, gameStats, sessions, timers, mounted,
                 grid, selected, score, nextId, resolved, bubbles, particles,
                 frameDue, timerDue, frames, taps, lastClick, lastMatches>>
  /\ UNCHANGED appRest

OnFinish(gameKey, sc) ==
  /\ SaveGameScore(gameKey, sc)
  /\ activeGame' = "none"
  /\ Unmount
  /\ finishes' = finishes + 1
  /\ UNCHANGED <<lastClick, lastMatches>>
  /\ reported' = Some(sc)
  /\ UNCHANGED <<user, isGamesOpen, gameStats, sessions>>
  /\ UNCHANGED appRest

NoFinish ==
  UNCHANGED <<hostVars, timers, finishes, reported, currentMood>>

\* onAuthStateChanged(auth, setUser) delivers a signed-in user; the [user]
\* effect then subscribes to the days collection and the stats document.
AuthSignedIn ==
  /\ ~user
  /\ user' = TRUE
  /\ snapPending' = TRUE
  /\ UNCHANGED lastClick
  /\ UNCHANGED <<isGamesOpen, activeGame, gameStats, stored, sessions, mounted, timers,
                 score, timeLeft, nextId, finishes, reported, patternVars,
                 dissolveVars, timeouts>>
  /\ daysPending' = TRUE
  /\ UNCHANGED <<currentMood, authVars, genVars, selectedDate, days, calendarData, now>>

\* onSnapshot(statsRef, docSnap => { if (docSnap.exists()) setGameStats(docSnap.data()) })
StatsSnapshot ==
  /\ user
  /\ snapPending
  /\ snapPending' = FALSE
  /\ gameStats' = IF stored.exists THEN stored.data ELSE gameStats
  /\ UNCHANGED lastClick
  /\ UNCHANGED <<user, isGamesOpen, activeGame, stored, sessions, mounted, timers,
                 score, timeLeft, nextId, finishes, reported, patternVars,
                 dissolveVars, timeouts>>
  /\ UNCHANGED appVars

OpenGames ==
  /\ ~isGamesOpen
  /\ isGamesOpen' = TRUE
  /\ UNCHANGED lastClick
  /\ UNCHANGED <<user, activeGame, gameStats, stored, snapPending, sessions, mounted,
                 timers, score, timeLeft, nextId, finishes, reported, patternVars,
                 dissolveVars, timeouts>>
  /\ UNCHANGED appVars

\* Mutant: the close button hides the overlay and leaves the game mounted.
CloseGamesHides ==
  /\ isGamesOpen
  /\ isGamesOpen' = FALSE
  /\ UNCHANGED <<user, activeGame, gameStats, stored, snapPending, sessions, mounted,
                 timers, score, timeLeft, nextId, finishes, reported, lastClick,
                 patternVars, dissolveVars, timeouts>>
  /\ UNCHANGED appVars

\* The overlay's close button: setIsGamesOpen(false); setActiveGame(null).
CloseGames ==
  /\ isGamesOpen
  /\ isGamesOpen' = FALSE
  /\ activeGame' = "none"
  /\ Unmount
  /\ ticks' = 0
  /\ lastClick' = "none"
  /\ lastMatches' = {}
  /\ UNCHANGED <<user, gameStats, stored, snapPending, sessions, finishes, reported,
                 timeouts>>
  /\ UNCHANGED appVars

\* "Enter Flow" / "Begin Release": the game component is constructed with its
\* useState initial values; its effects have not run yet.
EnterGame(game) ==
  /\ isGamesOpen
  /\ activeGame = "none"
  /\ sessions < MaxSessions
  /\ activeGame' = game
  /\ sessions' = sessions + 1
  /\ mounted' = FALSE
  /\ grid' = <<>>
  /\ selected' = Null
  /\ score' = 0
  /\ timeLeft' = IF game = "pattern" THEN PatternTime ELSE DissolveTime
  /\ nextId' = 0
  /\ resolved' = 0
  /\ bubbles' = <<>>
  /\ particles' = {}
  /\ frameDue' = FALSE
  /\ timerDue' = FALSE
  /\ frames' = 0
  /\ taps' = 0
  /\ ticks' = 0
  /\ finishes' = 0
  /\ reported' = Null
  /\ lastMatches' = {}
  /\ lastClick' = "none"
  /\ UNCHANGED <<user, isGamesOpen, gameStats, stored, snapPending, timers, timeouts>>
  /\ UNCHANGED appVars

\* ------------------------------------------------ Pattern Pulse actions
\* The mount effect: initGrid() and setInterval(..., 1000).
MountPattern(seed) ==
  /\ activeGame = "pattern"
  /\ ~mounted
  /\ mounted' = TRUE
  /\ grid' = InitGrid(seed, nextId)
  /\ nextId' = nextId + GridCells
  /\ timers' = {"countdown"}
  /\ UNCHANGED lastClick
  /\ UNCHANGED <<hostVars, selected, score, timeLeft, resolved, lastMatches, ticks,
                 finishes, reported, dissolveVars, timeouts>>
  /\ UNCHANGED appVars

\* Mutant: the effect reports the score of the first render.
TickStaleScore ==
  /\ activeGame = "pattern"
  /\ "countdown" \in timers
  /\ ticks' = ticks + 1
  /\ LET t == IF timeLeft > 0 THEN timeLeft - 1 ELSE 0
     IN  IF t = 0 /\ t # timeLeft
           THEN OnFinish("patternScore", 0)
           ELSE /\ timeLeft' = t
                /\ NoFinish
                /\ UNCHANGED <<mounted, score, nextId, grid, selected, resolved,
                               lastMatches, lastClick, dissolveVars>>
  /\ UNCHANGED timeouts
  /\ UNCHANGED appRest

\* Mutant: every tick runs the match scan on the grid and scores what it finds.
TickScans ==
  /\ activeGame = "pattern"
  /\ "countdown" \in timers
  /\ ticks' = ticks + 1
  /\ LET t == IF timeLeft > 0 THEN timeLeft - 1 ELSE 0
     IN  IF t = 0 /\ t # timeLeft
           THEN OnFinish("patternScore", score)
           ELSE /\ timeLeft' = t
                /\ NoFinish
                /\ score' = ScoreUpdate(score, Matches(grid))
                /\ UNCHANGED <<mounted, nextId, grid, selected, resolved,
                               lastMatches, lastClick, dissolveVars>>
  /\ UNCHANGED timeouts
  /\ UNCHANGED appRest

\* Mutant: every tick also drops the selection.
TickDeselects ==
  /\ activeGame = "pattern"
  /\ "countdown" \in timers
  /\ ticks' = ticks + 1
  /\ LET t == IF timeLeft > 0 THEN timeLeft - 1 ELSE 0
     IN  IF t = 0 /\ t # timeLeft
           THEN OnFinish("patternScore", score)
           ELSE /\ timeLeft' = t
                /\ NoFinish
                /\ selected' = Null
                /\ UNCHANGED <<mounted, score, nextId, grid, resolved,
                               lastMatches, lastClick, dissolveVars>>
  /\ UNCHANGED timeouts
  /\ UNCHANGED appRest

\* setTimeLeft(t => t > 0 ? t - 1 : 0), then the [timeLeft] effect:
\* if (timeLeft === 0) onFinish(score).
Tick ==
  /\ activeGame = "pattern"
  /\ "countdown" \in timers
  /\ ticks' = ticks + 1
  /\ LET t == IF timeLeft > 0 THEN timeLeft - 1 ELSE 0
     IN  IF t = 0 /\ t # timeLeft
           THEN OnFinish("patternScore", score)
           ELSE /\ timeLeft' = t
                /\ NoFinish
                /\ UNCHANGED <<mounted, score, nextId, grid, selected, resolved,
                               lastMatches, lastClick, dissolveVars>>
  /\ UNCHANGED timeouts
  /\ UNCHANGED appRest

\* Mutant: a rejected attempt keeps the selection.
SelectedAfterKeep(sel, outcome) == IF outcome = "rejected" THEN sel ELSE Null

\* setSelected(null), the last statement of handleOrbClick whatever the outcome.
SelectedAfter(sel, outcome) == Null

HandleOrbClick(idx) ==
  /\ activeGame = "pattern"
  /\ idx \in DOMAIN grid
  /\ IF selected = Null
       THEN /\ selected' = Some(idx)
            /\ lastClick' = "select"
            /\ UNCHANGED <<grid, score, nextId, resolved, lastMatches>>
       ELSE \E adjacent \in {IsAdjacent(idx, selected[1])} :
            \E newGrid \in {SwapCells(grid, idx, selected[1])} :
            \E matches \in {IF adjacent THEN Matches(newGrid) ELSE {}} :
            \E k \in (IF adjacent /\ matches # {} THEN 0..(MaxRefill - 1) ELSE {0}) :
            \E r \in {AttemptSwap(grid, adjacent, newGrid, matches, k, nextId)} :
              LET hit == r.outcome = "resolved"
              IN  /\ lastClick' = r.outcome
                  /\ selected' = SelectedAfter(selected, r.outcome)
                  /\ score' = IF hit THEN ScoreUpdate(score, r.matches) ELSE score
                  /\ nextId' = nextId + Cardinality(r.matches)
                  /\ resolved' = IF hit THEN resolved + 1 ELSE resolved
                  /\ lastMatches' = IF r.outcome = "rejected" THEN lastMatches
                                                              ELSE r.matches
                  /\ grid' = r.grid
  /\ UNCHANGED <<hostVars, mounted, timers, timeLeft, ticks, finishes, reported,
                 dissolveVars, timeouts>>
  /\ UNCHANGED appVars

\* ----------------------------------------------- Stress Dissolve actions
Bubble(n, s) == [id |-> n, y |-> SpawnY, speed |-> s]

\* The speeds the draw 0.5 + Math.random() * 1.5 is taken from, in half units.
Speeds == {3}
\* The same draw in SpecRise: speeds 1.0 and 1.5.
RiseSpeeds == {2, 3}

Append0(a, x) ==
  LET n == Cardinality(DOMAIN a)
  IN  [i \in 0..n |-> IF i = n THEN x ELSE a[i]]

\* .filter(bubble => bubble.y > -20), from index i on, appended to acc
RECURSIVE KeepVisible(_, _, _)
KeepVisible(a, i, acc) ==
  IF i \notin DOMAIN a THEN acc
  ELSE KeepVisible(a, i + 1, IF a[i].y > TopY THEN Append0(acc, a[i]) ELSE acc)

\* Mutant: every bubble rises by 1.5.
RisenFlat(b) == [b EXCEPT !.y = b.y - 3]

\* b.map(bubble => ({ ...bubble, y: bubble.y - bubble.speed })).filter(bubble => bubble.y > -20)
Risen(b) == [b EXCEPT !.y = b.y - b.speed]
MoveBubbles(bs) == KeepVisible([i \in DOMAIN bs |-> Risen(bs[i])], 0, <<>>)

\* Mutant: the effect restarts the frame interval only.
RestartFrameInterval ==
  /\ timers' = {"spawn", "frame"}
  /\ frameDue' = FALSE
  /\ timerDue' = timerDue

\* The [bubbles, score] effect: cleanup clears both intervals, the body sets
\* both again.
RestartIntervals ==
  /\ timers' = {"spawn", "frame"}
  /\ frameDue' = FALSE
  /\ timerDue' = FALSE

MountDissolve ==
  /\ activeGame = "dissolve"
  /\ ~mounted
  /\ mounted' = TRUE
  /\ RestartIntervals
  /\ UNCHANGED lastClick
  /\ UNCHANGED <<hostVars, score, timeLeft, nextId, finishes, reported, patternVars,
                 bubbles, particles, frames, taps, timeouts>>
  /\ UNCHANGED appVars

\* Time passes: 16 ms since the intervals were set (the frame callback is due),
\* or, when the event loop is late, 700 ms (the spawn callback is due as well).
Elapse(late) ==
  /\ activeGame = "dissolve"
  /\ mounted
  /\ frameDue' = TRUE
  /\ timerDue' = (timerDue \/ late)
  /\ <<frameDue', timerDue'>> # <<frameDue, timerDue>>
  /\ UNCHANGED lastClick
  /\ UNCHANGED <<hostVars, mounted, timers, score, timeLeft, nextId, finishes, reported,
                 patternVars, bubbles, particles, frames, taps, timeouts>>
  /\ UNCHANGED appVars

\* The 700 ms interval callback.
DissolveTimer(s) ==
  /\ activeGame = "dissolve"
  /\ "spawn" \in timers
  /\ timerDue
  /\ IF timeLeft <= 1
       THEN OnFinish("dissolveScore", score)
       ELSE /\ timeLeft' = timeLeft - 1
            /\ UNCHANGED <<hostVars, finishes, reported, currentMood>>
            /\ IF Cardinality(DOMAIN bubbles) < MaxBubbles
                 THEN /\ bubbles' = Append0(bubbles, Bubble(nextId, s))
                      /\ nextId' = nextId + 1
                      /\ RestartIntervals
                 ELSE /\ timerDue' = FALSE
                      /\ UNCHANGED <<bubbles, nextId, timers, frameDue>>
            /\ UNCHANGED <<mounted, score, grid, selected, resolved, lastMatches,
                           lastClick, particles, frames, taps>>
  /\ UNCHANGED <<ticks, timeouts>>
  /\ UNCHANGED appRest

\* The 16 ms interval callback.
DissolveFrame ==
  /\ activeGame = "dissolve"
  /\ "frame" \in timers
  /\ frameDue
  /\ bubbles' = MoveBubbles(bubbles)
  /\ RestartIntervals
  /\ UNCHANGED lastClick
  /\ UNCHANGED <<hostVars, mounted, score, timeLeft, nextId, finishes, reported,
                 patternVars, particles, taps, timeouts>>
  /\ UNCHANGED appVars

\* The n-th particle of the burst of the given tap: a fresh object.
Particle(n, burst) == [id |-> <<burst, n>>, burst |-> burst]

\* prev.filter(b => b.id !== id), from index i on, appended to acc
RECURSIVE WithoutId(_, _, _, _)
WithoutId(a, id, i, acc) ==
  IF i \notin DOMAIN a THEN acc
  ELSE WithoutId(a, id, i + 1, IF a[i].id # id THEN Append0(acc, a[i]) ELSE acc)

TriggerBurst(i) ==
  /\ activeGame = "dissolve"
  /\ i \in DOMAIN bubbles
  /\ score' = score + 1
  /\ bubbles' = WithoutId(bubbles, bubbles[i].id, 0, <<>>)
  /\ particles' = particles \cup {Particle(n, taps) : n \in 0..(BurstSize - 1)}
  /\ timeouts' = timeouts \cup {[session |-> sessions, burst |-> taps]}
  /\ taps' = taps + 1
  /\ RestartIntervals
  /\ lastClick' = "tap"
  /\ UNCHANGED <<hostVars, mounted, timeLeft, nextId, finishes, reported, patternVars,
                 frames>>
  /\ UNCHANGED appVars

\* Mutant: the expiry empties the particle list.
BurstExpireAll(t) ==
  /\ t \in timeouts
  /\ timeouts' = timeouts \ {t}
  /\ particles' = IF activeGame = "dissolve" /\ t.session = sessions
                    THEN {}
                    ELSE particles
  /\ UNCHANGED lastClick
  /\ UNCHANGED <<hostVars, mounted, timers, score, timeLeft, nextId, finishes, reported,
                 patternVars, bubbles, frameDue, timerDue, frames, taps>>
  /\ UNCHANGED appVars

\* setTimeout(() => setParticles(prev => prev.filter(p => !newGas.includes(p))), 1000):
\* never cleared; a state update of an unmounted component has no effect.
BurstExpire(t) ==
  /\ t \in timeouts
  /\ timeouts' = timeouts \ {t}
  /\ particles' = IF activeGame = "dissolve" /\ t.session = sessions
                    THEN {p \in particles : p.burst # t.burst}
                    ELSE particles
  /\ UNCHANGED lastClick
  /\ UNCHANGED <<hostVars, mounted, timers, score, timeLeft, nextId, finishes, reported,
                 patternVars, bubbles, frameDue, timerDue, frames, taps>>
  /\ UNCHANGED appVars

\* ------------------------------------------------------------- sign-in
\* err.message of a rejected sign-in.
ErrorMessages == {"auth/network-request-failed", "auth/operation-not-allowed"}

Pending == {"custom", "anonymous"}

\* initAuth up to its await: the sign-in call is chosen by the token.
StartSignIn ==
  /\ signIn' = IF initialAuthToken THEN "custom" ELSE "anonymous"
  /\ attempts' = attempts + 1

\* The mount effect of the App calls initAuth().
MountAuth ==
  /\ signIn = "idle"
  /\ StartSignIn
  /\ UNCHANGED <<initialAuthToken, authError, retryTimer>>
  /\ UNCHANGED <<user, gameStats, stored, snapPending, gameVars, currentMood, genVars,
                 selectedDate, days, calendarData, daysPending, now>>

\* The awaited sign-in resolves: setAuthError(null).
SignInResolves ==
  /\ signIn \in Pending
  /\ signIn' = "done"
  /\ authError' = Null
  /\ UNCHANGED <<initialAuthToken, retryTimer, attempts>>
  /\ UNCHANGED <<user, gameStats, stored, snapPending, gameVars, currentMood, genVars,
                 selectedDate, days, calendarData, daysPending, now>>

\* Mutant: the catch block reports the error and gives up.
SignInRejectsNoRetry(message) ==
  /\ signIn \in Pending
  /\ signIn' = "failed"
  /\ authError' = Some(message)
  /\ UNCHANGED <<initialAuthToken, retryTimer, attempts>>
  /\ UNCHANGED <<user, gameStats, stored, snapPending, gameVars, currentMood, genVars,
                 selectedDate, days, calendarData, daysPending, now>>

\* The awaited sign-in rejects: setAuthError(err.message); setTimeout(initAuth, 5000).
SignInRejects(message) ==
  /\ signIn \in Pending
  /\ signIn' = "failed"
  /\ authError' = Some(message)
  /\ retryTimer' = TRUE
  /\ UNCHANGED <<initialAuthToken, attempts>>
  /\ UNCHANGED <<user, gameStats, stored, snapPending, gameVars, currentMood, genVars,
                 selectedDate, days, calendarData, daysPending, now>>

\* The 5000 ms timeout runs initAuth again.
RetryTimeout ==
  /\ retryTimer
  /\ retryTimer' = FALSE
  /\ StartSignIn
  /\ UNCHANGED <<initialAuthToken, authError>>
  /\ UNCHANGED <<user, gameStats, stored, snapPending, gameVars, currentMood, genVars,
                 selectedDate, days, calendarData, daysPending, now>>

\* ------------------------------------------------------------ the diary
\* getDateKey: the date is moved back by the timezone offset and the date part
\* of its ISO (UTC) string is taken.
GetDateKey(date) == (date - TimezoneOffset) \div QuartersPerDay

\* new Date() during the run: the first quarter of today's local day.
NowDate == Today * QuartersPerDay + TimezoneOffset

\* calendarData[key]: Null stands for undefined.
DayData(cd, key) == IF key \in DOMAIN cd THEN Some(cd[key]) ELSE Null

\* [dayData.q1, dayData.q2, dayData.q3, dayData.q4].filter(Boolean), from
\* slot i on, appended to acc
RECURSIVE LoggedMoods(_, _, _)
LoggedMoods(doc, i, acc) ==
  IF i > Len(SlotIds) THEN acc
  ELSE LoggedMoods(doc, i + 1,
         IF SlotIds[i] \in DOMAIN doc THEN Append(acc, doc[SlotIds[i]]) ELSE acc)

\* freq[m] after the reduce over moods
Freq(moods, m) == Cardinality({i \in DOMAIN moods : moods[i] = m})

\* Object.keys(freq): the moods in the order of their first occurrence
RECURSIVE FreqKeys(_, _, _)
FreqKeys(moods, i, acc) ==
  IF i > Len(moods) THEN acc
  ELSE FreqKeys(moods, i + 1,
         IF \E j \in DOMAIN acc : acc[j] = moods[i] THEN acc ELSE Append(acc, moods[i]))

\* Object.keys(freq).find(k => freq[k] >= 3), from key i on
RECURSIVE ProbWinner(_, _, _)
ProbWinner(keys, moods, i) ==
  IF i > Len(keys) THEN Null
  ELSE IF Freq(moods, keys[i]) >= WinnerThreshold THEN Some(keys[i])
  ELSE ProbWinner(keys, moods, i + 1)

\* Object.keys(freq).reduce((a, b) => freq[a] > freq[b] ? a : b), from key i
\* on with accumulator a
RECURSIVE ReduceKeys(_, _, _, _)
ReduceKeys(keys, moods, i, a) ==
  IF i > Len(keys) THEN a
  ELSE ReduceKeys(keys, moods, i + 1,
         IF Freq(moods, a) > Freq(moods, keys[i]) THEN a ELSE keys[i])

GetDominantMoodOfDay(dayData) ==
  IF dayData = Null THEN Null
  ELSE LET moods == LoggedMoods(dayData[1], 1, <<>>)
       IN  IF Len(moods) = 0 THEN Null
           ELSE LET keys == FreqKeys(moods, 1, <<>>)
                    probWinner == ProbWinner(keys, moods, 1)
                IN  IF probWinner # Null THEN probWinner
                    ELSE Some(ReduceKeys(keys, moods, 2, keys[1]))

\* { ...doc, ...data }: the fields of a document after a merge
MergeFields(doc, data) ==
  [f \in DOMAIN doc \cup DOMAIN data |-> IF f \in DOMAIN data THEN data[f] ELSE doc[f]]

\* Mutant: the document is replaced by the data written.
SetDayDocReplace(store, key, data) ==
  [k \in DOMAIN store \cup {key} |-> IF k = key THEN data ELSE store[k]]

\* setDoc(doc(db, ..., 'days', key), data, { merge: true })
SetDayDoc(store, key, data) ==
  [k \in DOMAIN store \cup {key} |->
     IF k = key
       THEN MergeFields(IF key \in DOMAIN store THEN store[key] ELSE <<>>, data)
       ELSE store[k]]

\* { [slotId]: currentMood, updated_at: Date.now() }
SlotData(slotId, mood, t) ==
  [f \in {slotId, "updated_at"} |-> IF f = slotId THEN mood ELSE t]

\* onSnapshot(colRef, snapshot => { ...; setCalendarData(data) })
DaysSnapshot ==
  /\ user
  /\ daysPending
  /\ daysPending' = FALSE
  /\ calendarData' = days
  /\ UNCHANGED <<user, gameStats, stored, snapPending, gameVars, currentMood, authVars,
                 genVars, selectedDate, days, now>>

\* A mood button: setCurrentMood(key).
SetCurrentMood(key) ==
  /\ currentMood' = key
  /\ UNCHANGED <<user, gameStats, stored, snapPending, gameVars, appRest>>

\* changeDate: setDate(getDate() + offset) moves the date by whole days.
ChangeDate(offset) ==
  /\ selectedDate' = selectedDate + offset * QuartersPerDay
  /\ UNCHANGED <<user, gameStats, stored, snapPending, gameVars, currentMood, authVars,
                 genVars, days, calendarData, daysPending, now>>

HandleSlotClick(slotId) ==
  /\ IF user
       THEN /\ days' = SetDayDoc(days, GetDateKey(selectedDate),
                                 SlotData(slotId, currentMood, now))
            /\ daysPending' = TRUE
            /\ now' = now + 1
       ELSE UNCHANGED <<days, daysPending, now>>
  /\ UNCHANGED <<user, gameStats, stored, snapPending, gameVars, currentMood, authVars,
                 genVars, selectedDate, calendarData>>

\* ---------------------------------------------------------- generation
Request(kind, dateKey) == [kind |-> kind, dateKey |-> dateKey]

RemoveAt(seq, i) == SubSeq(seq, 1, i - 1) \o SubSeq(seq, i + 1, Len(seq))

\* last7.length: the days among today and the six before it whose dominant
\* mood is not null.
Last7Length(cd) ==
  Cardinality({i \in 0..(WeekDays - 1) :
     GetDominantMoodOfDay(DayData(cd, GetDateKey(NowDate - i * QuartersPerDay))) # Null})

\* generateWeeklyInsight up to its first await.
GenerateWeeklyInsight ==
  /\ IF ~user \/ isGenerating
       THEN UNCHANGED <<isGenerating, requests, weeklyAlert>>
       ELSE IF Last7Length(calendarData) < MinInsightDays
              THEN /\ weeklyAlert' = "short"
                   /\ isGenerating' = FALSE
                   /\ UNCHANGED requests
              ELSE /\ isGenerating' = TRUE
                   /\ requests' = Append(requests, Request("weekly", GetDateKey(NowDate)))
                   /\ UNCHANGED weeklyAlert
  /\ UNCHANGED <<user, gameStats, stored, snapPending, gameVars, currentMood, authVars,
                 selectedDate, days, calendarData, daysPending, now>>

\* Mutant: generateSummary does not look at isGenerating.
GenerateSummaryUnguarded ==
  /\ IF ~user \/ DayData(calendarData, GetDateKey(selectedDate)) = Null
       THEN UNCHANGED <<isGenerating, requests>>
       ELSE /\ isGenerating' = TRUE
            /\ requests' = Append(requests, Request("summary", GetDateKey(selectedDate)))
  /\ UNCHANGED <<user, gameStats, stored, snapPending, gameVars, currentMood, authVars,
                 weeklyAlert, selectedDate, days, calendarData, daysPending, now>>

\* generateSummary up to its first await.
GenerateSummary ==
  /\ IF ~user \/ isGenerating \/ DayData(calendarData, GetDateKey(selectedDate)) = Null
       THEN UNCHANGED <<isGenerating, requests>>
       ELSE /\ isGenerating' = TRUE
            /\ requests' = Append(requests, Request("summary", GetDateKey(selectedDate)))
  /\ UNCHANGED <<user, gameStats, stored, snapPending, gameVars, currentMood, authVars,
                 weeklyAlert, selectedDate, days, calendarData, daysPending, now>>

\* The rest of a generation call, from the settled fetch to the finally block:
\* a weekly insight that arrives sets weeklyAlert, a summary that arrives is
\* written into its day document; a failure is logged and changes neither.
RequestSettles(i, ok) ==
  /\ i \in DOMAIN requests
  /\ requests' = RemoveAt(requests, i)
  /\ isGenerating' = FALSE
  /\ weeklyAlert' = IF ok /\ requests[i].kind = "weekly" THEN "insight" ELSE weeklyAlert
  /\ IF ok /\ requests[i].kind = "summary"
       THEN /\ days' = SetDayDoc(days, requests[i].dateKey, [ai_summary |-> "content"])
            /\ daysPending' = TRUE
       ELSE UNCHANGED <<days, daysPending>>
  /\ UNCHANGED <<user, gameStats, stored, snapPending, gameVars, currentMood, authVars,
                 selectedDate, calendarData, now>>

\* -------------------------------------------------------- specification
InitGame ==
  /\ mounted = FALSE
  /\ ticks = 0
  /\ timers = {}
  /\ grid = <<>>
  /\ selected = Null
  /\ score = 0
  /\ timeLeft = 0
  /\ nextId = 0
  /\ resolved = 0
  /\ bubbles = <<>>
  /\ particles = {}
  /\ timeouts = {}
  /\ frameDue = FALSE
  /\ timerDue = FALSE
  /\ frames = 0
  /\ taps = 0
  /\ finishes = 0
  /\ reported = Null
  /\ lastClick = "none"
  /\ lastMatches = {}

\* The useState initial values of the App outside the games; initAuth has not
\* run yet.
InitAppState ==
  /\ authError = Null
  /\ signIn = "idle"
  /\ retryTimer = FALSE
  /\ attempts = 0
  /\ currentMood = "calm"
  /\ calendarData = <<>>
  /\ daysPending = FALSE
  /\ now = 0
  /\ isGenerating = FALSE
  /\ requests = <<>>
  /\ weeklyAlert = "null"

\* The App outside the games as the game specifications start it: anonymous
\* sign-in and an empty days collection.
InitApp ==
  /\ InitAppState
  /\ initialAuthToken = FALSE
  /\ selectedDate = NowDate
  /\ days = <<>>

\* The host state of a fresh App with no stats document in the store.
InitHost ==
  /\ user = FALSE
  /\ isGamesOpen = FALSE
  /\ activeGame = "none"
  /\ gameStats = StatsDoc(0, 0).data
  /\ stored = NoDoc
  /\ snapPending = FALSE
  /\ sessions = 0

\* The state in which the App was built (useState initial values); the stats
\* document may hold scores written by an earlier run.
Init ==
  /\ InitGame
  /\ InitApp
  /\ user = FALSE
  /\ isGamesOpen = FALSE
  /\ activeGame = "none"
  /\ gameStats = StatsDoc(0, 0).data
  /\ stored \in {NoDoc, StatsDoc(EarlierHigh, EarlierHigh)}
  /\ snapPending = FALSE
  /\ sessions = 0

\* The whole app.  The player's clicks in Pattern Pulse fall on the orbs of
\* ClickedCells and the taps in Stress Dissolve on the oldest bubble.
ClickedCells == {20, 21}

Next ==
  \/ AuthSignedIn
  \/ StatsSnapshot
  \/ OpenGames
  \/ CloseGames
  \/ \E game \in {"pattern", "dissolve"} : EnterGame(game)
  \/ \E seed \in Seeds : MountPattern(seed)
  \/ Tick
  \/ \E idx \in ClickedCells : (HandleOrbClick(idx) /\ resolved' <= MaxResolved)
  \/ MountDissolve
  \/ \E late \in BOOLEAN : Elapse(late)
  \/ \E s \in Speeds : DissolveTimer(s)
  \/ (frames < MaxFrames /\ DissolveFrame /\ frames' = frames + 1)
  \/ (taps < MaxTaps /\ TriggerBurst(0))
  \/ \E t \in timeouts : BurstExpire(t)

Spec == Init /\ [][Next]_vars

\* The swap engine alone: the clicks of one Pattern Pulse session on any of the
\* 25 orbs, within the first second of the session (handleOrbClick neither
\* reads nor writes timeLeft, and the countdown touches nothing it reads).
InitClicks ==
  /\ InitGame
  /\ InitApp
  /\ user = TRUE
  /\ isGamesOpen = TRUE
  /\ activeGame = "none"
  /\ gameStats = StatsDoc(0, 0).data
  /\ stored = NoDoc
  /\ snapPending = TRUE
  /\ sessions = 0

NextClicks ==
  \/ EnterGame("pattern")
  \/ \E seed \in Seeds : MountPattern(seed)
  \/ \E idx \in Cells : (HandleOrbClick(idx) /\ resolved' <= MaxResolved)

SpecClicks == InitClicks /\ [][NextClicks]_vars

\* Stress Dissolve with its timers left to run for ever: frame callbacks are
\* not counted, the player taps any bubble on screen.  A timer callback that
\* is due and stays due runs, 16 ms always pass, and a mount effect that is
\* pending runs; nothing promises that the event loop is ever late.
NextLive ==
  \/ EnterGame("dissolve")
  \/ MountDissolve
  \/ Elapse(FALSE)
  \/ (Cardinality(DOMAIN bubbles) < MaxLiveBubbles /\ Elapse(TRUE))
  \/ \E s \in Speeds : DissolveTimer(s)
  \/ (DissolveFrame /\ frames' = frames)
  \/ \E i \in DOMAIN bubbles : (taps < MaxLiveTaps /\ TriggerBurst(i))
  \/ \E t \in timeouts : BurstExpire(t)

\* The bubbles the player taps in SpecDissolve: the oldest and the newest.
Tapped == {0, Cardinality(DOMAIN bubbles) - 1} \cap DOMAIN bubbles

\* One Stress Dissolve session after another, the event loop late at will
\* (so that spawn callbacks run).
NextDissolve ==
  \/ EnterGame("dissolve")
  \/ MountDissolve
  \/ \E late \in BOOLEAN : Elapse(late)
  \/ \E s \in Speeds : DissolveTimer(s)
  \/ (frames < MaxDissolveFrames /\ DissolveFrame /\ frames' = frames + 1)
  \/ \E i \in Tapped : (taps < MaxDissolveTaps /\ TriggerBurst(i))
  \/ \E t \in timeouts : BurstExpire(t)

SpecDissolve == InitClicks /\ [][NextDissolve]_vars

\* Bubbles left to rise, untapped, until the frame callback removes them.
NextRise ==
  \/ EnterGame("dissolve")
  \/ MountDissolve
  \/ Elapse(FALSE)
  \/ (Cardinality(DOMAIN bubbles) < MaxRiseBubbles /\ nextId < MaxRiseSpawns /\ Elapse(TRUE))
  \/ \E s \in RiseSpeeds : DissolveTimer(s)
  \/ (DissolveFrame /\ frames' = frames)

SpecRise == InitClicks /\ [][NextRise]_vars

SpecLive ==
  /\ InitClicks
  /\ [][NextLive]_vars
  /\ WF_vars(MountDissolve)
  /\ WF_vars(Elapse(FALSE))
  /\ WF_vars(DissolveFrame /\ frames' = frames)
  /\ WF_vars(\E s \in Speeds : DissolveTimer(s))
  /\ WF_vars(\E t \in timeouts : BurstExpire(t))


\* A day document as an earlier run left it: any mood or nothing in each slot.
DayDoc(a) ==
  [f \in {slot \in Slots : a[slot] # "none"} \cup {"updated_at"} |->
     IF f = "updated_at" THEN 0 ELSE a[f]]

CalendarStores ==
  {<<>>} \cup {[d \in {Today} |-> DayDoc(a)] : a \in [Slots -> Moods \cup {"none"}]}

\* The calendar: the days collection holds today's document in any of its
\* forms, the user signs in and the snapshots arrive; getDominantMoodOfDay is
\* applied to calendarData by the calendarDays memo.
InitCalendar ==
  /\ InitGame
  /\ InitHost
  /\ InitAppState
  /\ initialAuthToken = FALSE
  /\ selectedDate = NowDate
  /\ days \in CalendarStores

NextCalendar ==
  \/ AuthSignedIn
  \/ StatsSnapshot
  \/ DaysSnapshot

SpecCalendar == InitCalendar /\ [][NextCalendar]_vars

\* Signing in: the first MaxFailures attempts may fail, with either sign-in
\* call.  The mount effect runs and a pending timeout fires; nothing promises
\* that a sign-in call ever settles.
InitAuth ==
  /\ InitGame
  /\ InitHost
  /\ InitAppState
  /\ initialAuthToken \in BOOLEAN
  /\ selectedDate = NowDate
  /\ days = <<>>

NextAuth ==
  \/ MountAuth
  \/ SignInResolves
  \/ \E message \in ErrorMessages : (attempts <= MaxFailures /\ SignInRejects(message))
  \/ RetryTimeout
  \/ AuthSignedIn
  \/ StatsSnapshot
  \/ DaysSnapshot

SpecAuth ==
  /\ InitAuth
  /\ [][NextAuth]_vars
  /\ WF_vars(MountAuth)
  /\ WF_vars(RetryTimeout)

\* The stores the generation calls are tried on: empty, one mood logged on
\* every day of the calendar, one mood logged today only.
GenStores ==
  {<<>>,
   [d \in Dates |-> SlotData("q1", "calm", 0)],
   [d \in {Today} |-> SlotData("q2", "stress", 0)]}

\* The generation calls of a user who moves through the days of the calendar.
InitGen ==
  /\ InitGame
  /\ InitHost
  /\ InitAppState
  /\ initialAuthToken = FALSE
  /\ selectedDate = NowDate
  /\ days \in GenStores

NextGen ==
  \/ AuthSignedIn
  \/ StatsSnapshot
  \/ DaysSnapshot
  \/ \E offset \in {-1, 1} :
       (GetDateKey(selectedDate) + offset \in Dates /\ ChangeDate(offset))
  \/ GenerateWeeklyInsight
  \/ GenerateSummary
  \/ \E i \in DOMAIN requests : \E ok \in BOOLEAN : RequestSettles(i, ok)

SpecGen == InitGen /\ [][NextGen]_vars

\* Today's document as an earlier run left it: two slots and a summary.
EarlierDay ==
  [f \in {"q1", "q3", "ai_summary", "updated_at"} |->
     IF f = "q1" THEN "calm"
     ELSE IF f = "q3" THEN "low"
     ELSE IF f = "ai_summary" THEN "content"
     ELSE -1]

DiaryStores ==
  {<<>>, [d \in {Today} |-> EarlierDay], [d \in {Today - 1, Today} |-> EarlierDay]}

\* The diary: the App is opened at any time of today, the user picks moods,
\* moves through the days of the calendar and logs moods into slots, signed
\* in or not.
InitDiary ==
  /\ InitGame
  /\ InitHost
  /\ InitAppState
  /\ initialAuthToken = FALSE
  /\ selectedDate \in {NowDate + q : q \in 0..(QuartersPerDay - 1)}
  /\ days \in DiaryStores

NextDiary ==
  \/ AuthSignedIn
  \/ DaysSnapshot
  \/ \E key \in Moods : SetCurrentMood(key)
  \/ \E offset \in {-1, 1} :
       (GetDateKey(selectedDate) + offset \in Dates /\ ChangeDate(offset))
  \/ \E slotId \in Slots : (now < MaxWrites /\ HandleSlotClick(slotId))

SpecDiary == InitDiary /\ [][NextDiary]_vars

\* ================================================================ claims
\* Notions the claims are worded in, written from the claims and not from
\* the handlers.
Row(i) == i \div 5
Col(i) == i % 5
Abs(n) == IF n < 0 THEN 0 - n ELSE n

\* 4-directional adjacency in the 5x5 row-major grid.
GridAdjacent(a, b) ==
  \/ Row(a) = Row(b) /\ Abs(Col(a) - Col(b)) = 1
  \/ Col(a) = Col(b) /\ Abs(Row(a) - Row(b)) = 1

\* The pairs the swap rule accepts.
AcceptedPair(sel, idx) == idx \in {sel - 1, sel + 1, sel - 5, sel + 5}

\* The three cells of triple t hold one colour in grid g.
OneColor(g, t) == g[t[1]].color = g[t[2]].color /\ g[t[2]].color = g[t[3]].color

\* Three consecutive cells of one row, of one column.
RowTriples == {<<r * 5 + c, r * 5 + c + 1, r * 5 + c + 2>> : r \in 0..4, c \in 0..2}
ColTriples == {<<r * 5 + c, (r + 1) * 5 + c, (r + 2) * 5 + c>> : r \in 0..2, c \in 0..4}

\* The union of the row and column triples of one colour.
TripleUnion(g) ==
  UNION {{t[1], t[2], t[3]} : t \in {u \in RowTriples \cup ColTriples : OneColor(g, u)}}

Ids(g) == {g[i].id : i \in DOMAIN g}

\* A cell is selected, so that the next click is a swap attempt.
Armed == activeGame = "pattern" /\ selected # Null

\* The step is click idx of handleOrbClick, made with a cell selected.
SwapAttempt(idx) == Armed /\ HandleOrbClick(idx)

ScoreKeys == {"patternScore", "dissolveScore"}

\* C1 as stated: in every state of a Pattern Pulse session, the state at
\* creation included, the grid holds exactly 25 cells.
C1_GridHas25CellsFromCreation ==
  activeGame = "pattern" => Cardinality(DOMAIN grid) = 25

\* C1 (amended): in every state of a Pattern Pulse session after its mount
\* effect has run initGrid, whatever clicks, swaps, refills and ticks followed,
\* the grid holds exactly the 25 cells 0..24.
C1_GridHas25Cells ==
  (activeGame = "pattern" /\ mounted) => (DOMAIN grid = 0..24 /\ Cardinality(DOMAIN grid) = 25)

C1_Witness ==
  activeGame = "pattern" /\ mounted /\ resolved >= 1 /\ ticks >= 1 /\ selected # Null

\* C2: a swap attempt on a pair of cells that are not 4-directionally adjacent
\* in the grid leaves the grid and the score unchanged.
C2_NonAdjacentSwapIsNoOp ==
  [][\A idx \in Cells :
       (Armed /\ ~GridAdjacent(selected[1], idx) /\ SwapAttempt(idx))
         => (grid' = grid /\ score' = score)]_vars

\* C3: an accepted swap attempt whose post-swap grid holds no one-colour
\* triple leaves every cell's token and the score as they were.
C3_NoMatchSwapReverts ==
  [][\A idx \in Cells :
       (/\ Armed
        /\ AcceptedPair(selected[1], idx)
        /\ \E swapped \in {SwapCells(grid, idx, selected[1])} : TripleUnion(swapped) = {}
        /\ SwapAttempt(idx))
         => (grid' = grid /\ score' = score)]_vars

C3_Witness == activeGame = "pattern" /\ lastClick = "reverted" /\ score = 0

\* C4: an accepted swap attempt whose post-swap match set M is not empty adds
\* exactly 10 * |M| to the score, puts a new token of a palette colour in
\* every cell of M, and leaves every other cell the token it held after the swap.
C4_MatchScoresAndRefills ==
  [][\A idx \in Cells :
       (Armed /\ AcceptedPair(selected[1], idx) /\ SwapAttempt(idx))
         => \A swapped \in {SwapCells(grid, idx, selected[1])} :
              \A M \in {TripleUnion(swapped)} : \A old \in {Ids(grid)} :
                M # {} =>
                  /\ score' = score + 10 * Cardinality(M)
                  /\ \A i \in M : /\ grid'[i].color \in Palette
                                  /\ grid'[i].id \notin old
                  /\ \A i \in M : \A j \in M : i # j => grid'[i].id # grid'[j].id
                  /\ \A i \in Cells \ M : grid'[i] = swapped[i]]_vars

C4_Witness == activeGame = "pattern" /\ lastClick = "resolved" /\ score = 30

\* C5: the match set computed after a swap is the union of the one-colour
\* triples of three consecutive cells of one row or of one column, and so is
\* the match set of every grid the game shows.
C5_MatchSetIsTripleUnion ==
  [][/\ (activeGame' = "pattern" /\ mounted') => Matches(grid') = TripleUnion(grid')
     /\ \A idx \in Cells :
          (Armed /\ AcceptedPair(selected[1], idx) /\ SwapAttempt(idx))
            => \E swapped \in {SwapCells(grid, idx, selected[1])} :
                 lastMatches' = TripleUnion(swapped)]_vars

C5_Witness ==
  activeGame = "pattern" /\ lastClick = "resolved" /\ lastMatches = {10, 15, 20}

\* C6: in both games a session's score starts at 0 and no step of the session
\* lowers it.
C6_ScoreNeverDecreases ==
  [][/\ sessions' # sessions => score' = 0
     /\ (sessions' = sessions /\ activeGame' # "none") => score' >= score]_vars

C6_Witness ==
  /\ activeGame = "dissolve"
  /\ score = 1
  /\ stored.exists
  /\ stored.data["patternScore"] \notin {0, EarlierHigh}

\* C7: a Pattern Pulse session calls onFinish exactly when its timeLeft
\* reaches 0, once, with the score the session has then.
C7_FinishOnceWithScore ==
  [][/\ (activeGame = "pattern" /\ sessions' = sessions) =>
          /\ finishes = 0
          /\ finishes' \in {0, 1}
          /\ finishes' = 1 <=> (timeLeft = 1 /\ ticks' = ticks + 1)
          /\ finishes' = 1 => (reported' = Some(score) /\ activeGame' = "none")
     /\ (activeGame = "none" /\ sessions' = sessions) =>
          (finishes' = finishes /\ reported' = reported)]_vars

C7_Witness ==
  finishes = 1 /\ ticks = 45 /\ reported # Null /\ reported[1] > 0 /\ lastClick = "resolved"

\* C8: a Pattern Pulse session starts with timeLeft 45 and score 0; it is
\* still running after each of its first 44 ticks and ends on the 45th, and if
\* no swap was resolved (none attempted, or every attempt rejected or reverted)
\* onFinish is then called once, with 0.
C8_FortyFiveTicks ==
  [][/\ (sessions' # sessions /\ activeGame' = "pattern")
          => (timeLeft' = 45 /\ score' = 0 /\ ticks' = 0)
     /\ (activeGame = "pattern" /\ ticks' = ticks + 1)
          => IF ticks' < 45
               THEN activeGame' = "pattern" /\ finishes' = 0 /\ timeLeft' = 45 - ticks'
               ELSE /\ ticks' = 45
                    /\ activeGame' = "none"
                    /\ finishes' = 1
                    /\ resolved = 0 => reported' = Some(0)]_vars

C8_Witness ==
  /\ activeGame = "none"
  /\ ticks = 45
  /\ finishes = 1
  /\ reported = Some(0)
  /\ lastClick = "none"

\* The grid of the scenario: one colour everywhere but at index 2.
ScenarioGrid(g) ==
  /\ DOMAIN g = Cells
  /\ g[2].color # g[0].color
  /\ \A i \in Cells \ {2} : g[i].color = g[0].color

ScenarioSwap(idx) ==
  /\ Armed
  /\ <<selected[1], idx>> \in {<<7, 2>>, <<2, 7>>}
  /\ ScenarioGrid(grid)
  /\ SwapAttempt(idx)

\* C9 as stated: from the scenario grid the swap of 7 and 2 is accepted, its
\* match set holds 0, 1 and 2, the score grows by 30 and cells 0, 1 and 2 get
\* new tokens.
C9_ScenarioScores30 ==
  [][\A idx \in Cells :
       ScenarioSwap(idx) =>
         /\ lastClick' = "resolved"
         /\ {0, 1, 2} \subseteq lastMatches'
         /\ score' = score + 30
         /\ \A i \in {0, 1, 2} : grid'[i].id \notin Ids(grid)]_vars

\* C9 (amended): from the scenario grid the swap of 7 and 2 is accepted, its
\* match set is every cell but 7 (so it holds 0, 1 and 2), the score grows by
\* 240 and each of the 24 matched cells gets a new token of a palette colour.
C9_ScenarioScores240 ==
  [][\A idx \in Cells :
       ScenarioSwap(idx) =>
         /\ lastClick' = "resolved"
         /\ lastMatches' = Cells \ {7}
         /\ score' = score + 240
         /\ \A i \in Cells \ {7} : /\ grid'[i].id \notin Ids(grid)
                                   /\ grid'[i].color \in Palette
         /\ grid'[7].color = grid[2].color]_vars

C9_Witness ==
  /\ activeGame = "pattern"
  /\ resolved = 1
  /\ lastMatches = Cells \ {7}
  /\ score = 240
  /\ grid[7].color = COLORS[2]

\* C10: when a session ends with a user signed in, the stored high score of
\* the game played becomes the larger of the stored score and the reported
\* score, and no step lowers a stored high score.
C10_StoredHighScoreIsMax ==
  [][/\ \A key \in ScoreKeys : Field(stored'.data, key) >= Field(stored.data, key)
     /\ (finishes' = finishes + 1 /\ user) =>
          LET key == IF activeGame = "pattern" THEN "patternScore" ELSE "dissolveScore"
          IN  Field(stored'.data, key) = Max(Field(stored.data, key), score)]_vars

\* A Pattern Pulse session has called onFinish (ticks counts the countdown
\* callbacks of Pattern Pulse only).
PatternFinished == finishes >= 1 /\ ticks >= 1

Live(t) == activeGame = "dissolve" /\ t.session = sessions

\* C12: after a game was closed or has finished, no countdown, spawn or frame
\* callback runs, and no particle-expiry callback of a session runs once that
\* session is gone.
C12_NoCallbackAfterTeardown ==
  [][/\ activeGame = "none" => ~(Tick \/ DissolveFrame \/ \E s \in Speeds : DissolveTimer(s))
     /\ \A t \in timeouts : BurstExpire(t) => Live(t)]_vars

\* C13: a Stress Dissolve session starts with timeLeft 30 and score 0, calls
\* onFinish with the number of taps it scored, and, its timers firing fairly,
\* every session that is on screen eventually finishes, onFinish called once.
C13_BubbleSessionFinishes ==
  /\ [][/\ (sessions' # sessions /\ activeGame' = "dissolve")
             => (timeLeft' = 30 /\ score' = 0)
        /\ (activeGame = "dissolve" /\ finishes' # finishes /\ sessions' = sessions)
             => (finishes' = 1 /\ reported' = Some(taps))]_vars
  /\ (activeGame = "dissolve") ~> (activeGame = "none" /\ finishes = 1)

Count(a) == Cardinality(DOMAIN a)

\* C14: at most 8 bubbles are on screen in every state, and a step that adds
\* a bubble is a spawn tick (it counts timeLeft down) taken with fewer than 8
\* bubbles on screen, and adds one bubble.
C14_AtMostEightBubbles ==
  [][/\ Count(bubbles') <= 8
     /\ Count(bubbles') > Count(bubbles) =>
          /\ Count(bubbles) < 8
          /\ Count(bubbles') = Count(bubbles) + 1
          /\ timeLeft' = timeLeft - 1]_vars

C14_Witness ==
  /\ activeGame = "dissolve"
  /\ Count(bubbles) = 8
  /\ taps = 1
  /\ timeLeft = 20

\* Bubble b one frame later: y lower by b's own speed.
Lowered(b) == [id |-> b.id, y |-> b.y - b.speed, speed |-> b.speed]

\* The bubble at y is off screen: past the top boundary -20 (-40 in half
\* units) when strict, at or past it otherwise.
OffScreen(y, strict) == IF strict THEN y < -40 ELSE y <= -40

\* What a frame tick does to the bubbles and the score.
FrameEffect(strict) ==
  /\ score' = score
  /\ {bubbles'[j] : j \in DOMAIN bubbles'}
       = {Lowered(bubbles[i]) : i \in {k \in DOMAIN bubbles :
                                        ~OffScreen(bubbles[k].y - bubbles[k].speed, strict)}}
  /\ \A i \in DOMAIN bubbles', j \in DOMAIN bubbles' : i < j => bubbles'[i].id < bubbles'[j].id
  /\ \A i \in DOMAIN bubbles :
       bubbles[i].speed = 3 =>
         ((\A j \in DOMAIN bubbles' : bubbles'[j].id # bubbles[i].id)
            <=> bubbles[i].y = 220 - 3 * 86)

\* C15 as stated: a frame tick lowers every bubble's y by that bubble's
\* speed, leaves the score alone and removes exactly the bubbles that are then
\* past -20 (y < -20); a bubble of speed 1.5 spawned at 110 goes on its 87th
\* frame tick.
C15_FrameRemovesPastTop ==
  [][DissolveFrame => FrameEffect(TRUE)]_vars

\* C15 (amended): as above, but the bubbles removed are exactly those that
\* are then at or past -20 (y <= -20): a bubble that lands on -20 is removed.
C15_FrameRemovesAtOrPastTop ==
  [][DissolveFrame => FrameEffect(FALSE)]_vars

C15_Witness ==
  /\ activeGame = "dissolve"
  /\ nextId = 2
  /\ score = 0
  /\ Count(bubbles) = 1
  /\ bubbles[0] = [id |-> 1, y |-> 220 - 3 * 86, speed |-> 3]

\* C16: the selection is empty or one index of 0..24; a click made with no
\* selection sets the selection to the clicked index and leaves grid and score
\* alone; a click made with a cell selected leaves the selection empty,
\* whatever became of the swap.
C16_SelectionHoldsOneCell ==
  [][/\ selected' = Null \/ (Len(selected') = 1 /\ selected'[1] \in 0..24)
     /\ \A idx \in Cells :
          (activeGame = "pattern" /\ selected = Null /\ HandleOrbClick(idx))
            => (selected' = Some(idx) /\ grid' = grid /\ score' = score)
     /\ (Armed /\ selected' # Null) => ~(\E idx \in Cells : HandleOrbClick(idx))]_vars

C16_Witness ==
  /\ activeGame = "pattern"
  /\ selected = Null
  /\ lastClick = "rejected"
  /\ resolved = 1
  /\ score = 30

\* C17: every cell the grid holds has one of the five palette colours, from
\* initGrid on and after every swap and refill.
C17_ColorsInPalette ==
  \A i \in DOMAIN grid :
    grid[i].color \in {"#34d399", "#fbbf24", "#fb7185", "#38bdf8", "#818cf8"}

C17_Witness ==
  /\ activeGame = "pattern"
  /\ resolved = 2
  /\ \E i \in DOMAIN grid : grid[i].id >= 25 /\ grid[i].color = "#fb7185"
  /\ \E i \in DOMAIN grid : grid[i].id < 25 /\ grid[i].color = "#fbbf24"

\* C18: with a cell selected, the click on idx is accepted as a swap exactly
\* when idx is the selected index - 1, + 1, - 5 or + 5; every other click
\* (one on the selected cell included) is rejected: grid and score stay as
\* they are and the selection is cleared.
C18_AcceptedIffIndexOffset ==
  [][\A idx \in Cells :
       (Armed /\ HandleOrbClick(idx)) =>
         /\ (lastClick' # "rejected") <=> AcceptedPair(selected[1], idx)
         /\ ~AcceptedPair(selected[1], idx)
              => (grid' = grid /\ score' = score /\ selected' = Null)]_vars

C18_Witness ==
  /\ activeGame = "pattern"
  /\ lastClick = "rejected"
  /\ selected = Null
  /\ score = 240
  /\ resolved = 1

\* The bubbles on screen, by id.
BubbleSet(bs) == {bs[i] : i \in DOMAIN bs}

\* C19: a tap on a bubble removes that bubble and no other, adds 1 to the
\* score and adds 12 new particles; the expiry of a burst of the session on
\* screen removes the 12 particles of that burst and no others; no expiry
\* changes the score or the bubbles.
C19_TapAndBurst ==
  [][/\ \A i \in DOMAIN bubbles :
          (activeGame = "dissolve" /\ TriggerBurst(i)) =>
            /\ score' = score + 1
            /\ BubbleSet(bubbles') = BubbleSet(bubbles) \ {bubbles[i]}
            /\ Count(bubbles') = Count(bubbles) - 1
            /\ particles \subseteq particles'
            /\ Cardinality(particles' \ particles) = 12
     /\ \A t \in timeouts :
          BurstExpire(t) =>
            /\ score' = score
            /\ bubbles' = bubbles
            /\ particles' \subseteq particles
            /\ Live(t) => /\ Cardinality(particles \ particles') = 12
                          /\ \A p \in particles : p \notin particles' <=> p.burst = t.burst
            /\ ~Live(t) => particles' = particles]_vars

C19_Witness ==
  /\ activeGame = "dissolve"
  /\ taps = 2
  /\ score = 2
  /\ Cardinality(particles) = 12
  /\ Cardinality(timeouts) = 1

\* The step is an accepted swap attempt that resolved the triples the swap
\* made, and nothing more: it scored them once and replaced their cells only.
ResolvedOnce ==
  /\ Armed
  /\ \E idx \in Cells :
       /\ AcceptedPair(selected[1], idx)
       /\ HandleOrbClick(idx)
       /\ \E swapped \in {SwapCells(grid, idx, selected[1])} :
          \E M \in {TripleUnion(swapped)} :
            /\ M # {}
            /\ score' = score + 10 * Cardinality(M)
            /\ \A i \in Cells \ M : grid'[i] = swapped[i]

\* C20: while a Pattern Pulse session is on screen, a step changes the grid
\* or the score only if it is an accepted swap attempt, which resolves the
\* triples of the swapped grid once; the triples a grid holds at
\* initialization or after a refill stay as they are through every other step.
C20_NoCascade ==
  [][(activeGame = "pattern" /\ mounted /\ activeGame' = "pattern"
        /\ (grid' # grid \/ score' # score)) => ResolvedOnce]_vars

C20_Witness ==
  /\ activeGame = "pattern"
  /\ resolved = 1
  /\ lastClick = "select"
  /\ ticks >= 1
  /\ TripleUnion(grid) # {}

\* C21: in a Pattern Pulse session a countdown tick lowers timeLeft by exactly 1,
\* never below 0, and leaves grid, selection and score as they were (the tick
\* that reaches 0 hands that unchanged score to onFinish); any other step of
\* the session, a click or a swap attempt included, leaves timeLeft alone.
C21_TickChangesOnlyTime ==
  [][activeGame = "pattern" =>
       IF ticks' = ticks + 1
         THEN /\ timeLeft > 0
              /\ timeLeft' = timeLeft - 1
              /\ timeLeft' >= 0
              /\ IF activeGame' = "pattern"
                   THEN grid' = grid /\ selected' = selected /\ score' = score
                   ELSE timeLeft' = 0 /\ reported' = Some(score)
         ELSE activeGame' = "pattern" => timeLeft' = timeLeft]_vars

\* A session in which ticks have run between a resolved swap and a new selection.
C21_Witness ==
  /\ activeGame = "pattern"
  /\ ticks > 0
  /\ timeLeft = PatternTime - ticks
  /\ score > 0
  /\ selected # Null

\* The moods logged in the slots of a day document.
LoggedSlots(dayData) ==
  IF dayData = Null THEN {} ELSE {slot \in Slots : slot \in DOMAIN dayData[1]}
Occurrences(dayData, m) ==
  Cardinality({slot \in LoggedSlots(dayData) : dayData[1][slot] = m})

\* C22: for every day of the calendar, getDominantMoodOfDay is null when no
\* slot of the day is logged; otherwise it is a logged mood whose number of
\* occurrences among q1..q4 is maximal, and a mood logged in 3 slots or more
\* is the result.
C22_DominantMoodIsPlurality ==
  \A key \in Dates :
    \E dayData \in {DayData(calendarData, key)} :
    \E result \in {GetDominantMoodOfDay(dayData)} :
      IF LoggedSlots(dayData) = {}
        THEN result = Null
        ELSE /\ result # Null
             /\ Occurrences(dayData, result[1]) > 0
             /\ \A m \in Moods : Occurrences(dayData, m) <= Occurrences(dayData, result[1])
             /\ \A m \in Moods : Occurrences(dayData, m) >= 3 => result = Some(m)

\* The calendar holds a day whose first slot is calm and the other three low.
C22_Witness ==
  /\ Today \in DOMAIN calendarData
  /\ \A slot \in Slots : slot \in DOMAIN calendarData[Today]
  /\ calendarData[Today]["q1"] = "calm"
  /\ \A slot \in Slots \ {"q1"} : calendarData[Today][slot] = "low"
  /\ GetDominantMoodOfDay(DayData(calendarData, Today)) = Some("low")

\* C23: a sign-in attempt that fails sets authError and schedules the retry
\* timeout, and the timeout leads to a new attempt, after every failure; an
\* attempt that succeeds clears authError and schedules nothing, and no
\* attempt or retry follows it.
C23_RetryUntilSignedIn ==
  /\ [][/\ (signIn \in Pending /\ signIn' = "failed") => (authError' # Null /\ retryTimer')
        /\ (signIn \in Pending /\ signIn' = "done") => (authError' = Null /\ ~retryTimer')
        /\ signIn = "done" =>
             (signIn' = "done" /\ attempts' = attempts /\ ~retryTimer'
              /\ authError' = Null)]_vars
  /\ \A n \in 1..MaxFailures :
       (signIn = "failed" /\ attempts = n) ~> (signIn \in Pending /\ attempts = n + 1)

\* The third attempt has succeeded after two failures.
C23_Witness ==
  /\ signIn = "done"
  /\ attempts = 3
  /\ authError = Null
  /\ ~retryTimer

\* The one-colour triples of the post-swap grid that were there before the
\* swap and hold neither swapped cell.
OldTriples(g, swapped, a, b) ==
  {t \in RowTriples \cup ColTriples :
     /\ a \notin {t[1], t[2], t[3]}
     /\ b \notin {t[1], t[2], t[3]}
     /\ OneColor(g, t)
     /\ OneColor(swapped, t)}

\* C24: an accepted swap attempt whose post-swap grid holds a one-colour
\* triple that was there before the swap and holds neither swapped cell is
\* resolved, not reverted: every cell of such a triple is in the match set,
\* is paid 10 points and gets a new token, and a swapped cell outside the
\* match set keeps the token the swap gave it.
C24_OldTriplesAreScored ==
  [][\A idx \in Cells :
       (Armed /\ AcceptedPair(selected[1], idx) /\ SwapAttempt(idx))
         => \A swapped \in {SwapCells(grid, idx, selected[1])} :
              \A old \in {OldTriples(grid, swapped, idx, selected[1])} :
                old # {} =>
                  /\ lastClick' = "resolved"
                  /\ score' = score + 10 * Cardinality(lastMatches')
                  /\ \A t \in old : \A n \in 1..3 :
                       /\ t[n] \in lastMatches'
                       /\ grid'[t[n]].id \notin Ids(grid)
                  /\ \A i \in {idx, selected[1]} \ lastMatches' : grid'[i] = swapped[i]]_vars

\* Orbs 20 and 21 of the scenario grid have been swapped: every cell but 2
\* was in a triple before the swap.
C24_Witness ==
  /\ activeGame = "pattern"
  /\ lastClick = "resolved"
  /\ resolved = 1
  /\ lastMatches = Cells \ {2}
  /\ score = 240

\* C25: in a Stress Dissolve session every frame tick, spawn and tap, and so
\* every change of the bubbles or of the score, sets both intervals anew, so
\* that neither callback is due; a countdown or spawn callback runs only when
\* 700 ms have passed since the intervals were last set.
C25_ChangesRestartIntervals ==
  [][(activeGame = "dissolve" /\ mounted) =>
       /\ (/\ activeGame' = "dissolve"
           /\ \/ bubbles' # bubbles
              \/ score' # score
              \/ frames' # frames
              \/ taps' # taps
              \/ DissolveFrame)
            => (timers' = {"spawn", "frame"} /\ ~frameDue' /\ ~timerDue')
       /\ (timeLeft' # timeLeft \/ finishes' # finishes) => timerDue]_vars

\* A session in which a frame tick, two taps and spawns have happened, with a
\* spawn callback run since the last of them.
C25_Witness ==
  /\ activeGame = "dissolve"
  /\ frames = 1
  /\ taps = 2
  /\ Count(bubbles) = 4
  /\ timeLeft = 24
  /\ ~timerDue

OtherKey == IF activeGame = "pattern" THEN "dissolveScore" ELSE "patternScore"

\* C27: a step that saves the score of the session that finishes leaves the
\* stored high score of the other game as it was, whatever snapshots have or
\* have not arrived before.
C27_SaveKeepsOtherScore ==
  [][finishes' = finishes + 1 =>
       Field(stored'.data, OtherKey) = Field(stored.data, OtherKey)]_vars

\* C28: at most one generation request is in flight in every state and
\* isGenerating is true while one is; a generation call made while
\* isGenerating is true starts no request; and the step that ends a request,
\* arrived or failed, leaves isGenerating false.
C28_OneRequestInFlight ==
  [][/\ Len(requests') <= 1
     /\ requests' # <<>> => isGenerating'
     /\ isGenerating => Len(requests') <= Len(requests)
     /\ Len(requests') < Len(requests) => ~isGenerating']_vars

\* A weekly insight has arrived and a summary request is in flight.
C28_Witness ==
  /\ weeklyAlert = "insight"
  /\ isGenerating
  /\ Len(requests) = 1
  /\ requests[1].kind = "summary"

\* C29: the score of a Pattern Pulse session is a multiple of 10 in every
\* state, and a resolved swap adds 10 for each of the 3 to 25 cells of its
\* match set, between 30 and 250 points.
C29_ScoreInTens ==
  [][activeGame' = "pattern" =>
       /\ score' % 10 = 0
       /\ resolved' = resolved + 1 =>
            /\ Cardinality(lastMatches') \in 3..25
            /\ score' - score = 10 * Cardinality(lastMatches')
            /\ score' - score \in 30..250]_vars

\* Two swaps have resolved, the first for 30 points.
C29_Witness ==
  /\ activeGame = "pattern"
  /\ resolved = 2
  /\ score > 60
  /\ score < 240

\* The fields of the document of a day, none when there is no document.
FieldsOf(store, key) == IF key \in DOMAIN store THEN DOMAIN store[key] ELSE {}

\* C30: a step that changes the days collection is made with a user signed
\* in and writes one slot of the selected date: that slot holds the current
\* mood, the date's document gains or changes no other field than that slot
\* and updated_at (its other slots and its ai_summary are as before), and the
\* documents of all other dates are as before.
C30_SlotClickWritesOneSlot ==
  [][days' # days =>
       /\ user
       /\ \E key \in {GetDateKey(selectedDate)} : \E slotId \in Slots :
            /\ DOMAIN days' = DOMAIN days \cup {key}
            /\ \A d \in DOMAIN days \ {key} : days'[d] = days[d]
            /\ FieldsOf(days', key) = FieldsOf(days, key) \cup {slotId, "updated_at"}
            /\ days'[key][slotId] = currentMood
            /\ \A f \in FieldsOf(days, key) \ {slotId, "updated_at"} :
                 days'[key][f] = days[key][f]]_vars

\* A mood was logged into slot q2 of today, whose document held two other
\* slots and a summary, with yesterday's document in the store as well.
C30_Witness ==
  /\ now = 1
  /\ DOMAIN days = {Today - 1, Today}
  /\ days[Today - 1] = EarlierDay
  /\ DOMAIN days[Today] = DOMAIN EarlierDay \cup {"q2"}
  /\ days[Today]["q2"] = "stress"
  /\ days[Today]["q1"] = "calm"
  /\ days[Today]["ai_summary"] = "content"
  /\ days[Today]["updated_at"] = 0

====
